---- MODULE Spec2Model ----
(***************************************************************************)
(* Model of the feedless content script (src/unnamed/part_000): the        *)
(* resource tracker (safeSetTimeout / safeSetInterval / cleanupResources), *)
(* the defensive storage wrappers (safeGet / safeSet), the feed visibility *)
(* policy (updateBlockerState), placeholder injection, the mutation        *)
(* observer with its reconciliation pass, the click check, the backstop    *)
(* sweep, the watchdog and the start-up sequence (safeInit).               *)
(*                                                                         *)
(* One event-loop task of the page is one action.  A handler is written as *)
(* an operator from program state (a record with one field per variable)   *)
(* to program state, composed the way the calls nest in the source.        *)
(***************************************************************************)
EXTENDS Integers, Sequences, FiniteSets, TLC

\* ---------------------------------------------------------------- bounds
NEl         == 2   \* feed-matching elements the page can hold; element 1 is the anchor container
MaxTimeouts == 2   \* one-shot timers pending at once
MaxReads    == 1   \* store reads in flight at once
MaxToggles  == 2   \* toggleFeedBlocker messages handled per page lifetime
MaxClicks   == 1   \* clicks handled per page lifetime
MaxBurst    == 2   \* mutation notifications counted within one throttle window
MaxOwed     == 2   \* callbacks owed when a direct safeGet call is still made
NNews       == 1   \* news-panel elements the page can hold

\* ------------------------------------------------------ program constants
DefaultRetries == 1
RetryDelay     == 100
ApplyDelay     == 100
InitDelay      == 200
ThrottleDelay  == 200
ClickDelay     == 500
PollPeriod     == 500
SweepPeriod    == 1000
WatchdogPeriod == 5000
GiveUpDelay    == 10000

VARIABLES
  host,         \* "up" | "invalidated" (API objects exist, calls throw) | "down"
                \* (chrome.storage gone) | "norun" (chrome.runtime gone, storage left)
  store,        \* persisted key-value store: [feed, news], each "absent" | "true" | "false"
  initialized,  \* line 5
  timers,       \* the runtime's timers in creation order; .reg = handle is in timeouts/intervals
  stale,        \* [timeouts, intervals]: handles in a registry whose timer the runtime has
                \* retired (fired one-shot, cleared interval)
  reads,        \* chrome.storage.local.get calls in flight, oldest first
  observer,     \* the MutationObserver: [n, connected, reg, timeout]
  pollId,       \* createReplacementContent's checkIntervalId is non-null
  phase,        \* "loading" | "interactive" | "domready" | "complete"
  body,         \* document.body exists
  classes,      \* document.body.classList
  placeholder,  \* #feed-replacement: "absent" or its style.display ("", "flex", "none")
  phCount,      \* #feed-replacement nodes in the document
  phMade,       \* #feed-replacement nodes createReplacement has inserted so far
  injections,   \* calls of createReplacementContent
  recon,        \* reconciliation tally: [burst, served, due]: notifications in the open
                \* throttle window, notifications the last fired timer stood for,
                \* timers fired whose pass has not run yet
  gaveUp,       \* the 10 s timeout found checkIntervalId set and cancelled the polling
  els,          \* feed-matching elements: [in, marked, display, vis]
  news,         \* news-panel elements: [in, marked, display]
  dcl,          \* DOMContentLoaded {once:true} listeners not yet run
  listeners,    \* [load, msg, click, error]: installed listeners
  started,      \* the content script's top-level code has run
  responses,    \* sendResponse calls of the current getState request
  get,          \* the current getState request's safeGet call: [att, delays, outs, res]
  owed,         \* safeGet calls started minus callbacks invoked
  toggles,      \* toggleFeedBlocker values handled, in order
  clicks,       \* clicks handled
  tornDown,     \* cleanupResources has run
  after,        \* a timer or observer callback ran after cleanupResources
  last          \* the task that ran last: [op, en, resp, threw, res, args]; threw = an exception
                \* escaped it; res = the result the start-up callback or the reconciliation
                \* pass was handed, args = what the start-up callback computed from it

vars == << host, store, initialized, timers, stale, reads, observer, pollId, phase, body,
           classes, placeholder, phCount, phMade, injections, recon, gaveUp, els, news, dcl, listeners, started, responses, get,
           owed, toggles, clicks, tornDown, after, last >>

Elems   == 1 .. NEl
NewsEls == 1 .. NNews
Anchor  == 1
Values  == {"absent", "true", "false"}
Empty   == [feed |-> "absent", news |-> "absent"]

Active   == "feed-blocker-active"
Disabled == "feed-blocker-disabled"
NewsOn   == "news-blocker-active"

Intervals == {"watchdog", "poll", "sweep"}

\* the program state as one record; exc = an exception is propagating,
\* mut = a childList mutation happened in the running handler, ret = last return value
St ==
  [ host |-> host, store |-> store, initialized |-> initialized, timers |-> timers,
    stale |-> stale,
    reads |-> reads, observer |-> observer, pollId |-> pollId, phase |-> phase,
    body |-> body, classes |-> classes, placeholder |-> placeholder, phCount |-> phCount, phMade |-> phMade,
    injections |-> injections, recon |-> recon, gaveUp |-> gaveUp, els |-> els,
    news |-> news, dcl |-> dcl, listeners |-> listeners, started |-> started, responses |-> responses,
    get |-> get, owed |-> owed, toggles |-> toggles, clicks |-> clicks,
    tornDown |-> tornDown, after |-> after, last |-> last,
    exc |-> FALSE, mut |-> FALSE, ret |-> FALSE ]

Becomes(n) ==
  /\ host' = n.host /\ store' = n.store /\ initialized' = n.initialized
  /\ timers' = n.timers /\ reads' = n.reads /\ observer' = n.observer
  /\ stale' = n.stale
  /\ pollId' = n.pollId /\ phase' = n.phase /\ body' = n.body
  /\ classes' = n.classes /\ placeholder' = n.placeholder /\ phCount' = n.phCount
  /\ els' = n.els /\ news' = n.news /\ injections' = n.injections
  /\ gaveUp' = n.gaveUp /\ phMade' = n.phMade /\ recon' = n.recon
  /\ dcl' = n.dcl /\ listeners' = n.listeners /\ started' = n.started
  /\ responses' = n.responses /\ get' = n.get /\ owed' = n.owed
  /\ toggles' = n.toggles /\ clicks' = n.clicks /\ tornDown' = n.tornDown
  /\ after' = n.after /\ last' = n.last

\* ------------------------------------------------------------- helpers
RemoveAt(s, i) == SubSeq(s, 1, i - 1) \o SubSeq(s, i + 1, Len(s))

Delay(role) ==
  CASE role = "retry"    -> RetryDelay
    [] role = "apply"    -> ApplyDelay
    [] role = "init"     -> InitDelay
    [] role = "recon"    -> ThrottleDelay
    [] role = "click"    -> ClickDelay
    [] role = "poll"     -> PollPeriod
    [] role = "sweep"    -> SweepPeriod
    [] role = "watchdog" -> WatchdogPeriod
    [] role = "giveup"   -> GiveUpDelay

Timer(role, en, cb, retries, reg) ==
  [role |-> role, en |-> en, cb |-> cb, retries |-> retries, reg |-> reg]

\* the three registries of lines 2-4, as the handles they hold
timeouts  ==
  {<< "pending", i >> : i \in {j \in DOMAIN timers : timers[j].reg /\ timers[j].role \notin Intervals}}
    \cup {<< "fired", k >> : k \in 1 .. stale.timeouts}
intervals ==
  {<< "running", i >> : i \in {j \in DOMAIN timers : timers[j].reg /\ timers[j].role \in Intervals}}
    \cup {<< "cleared", k >> : k \in 1 .. stale.intervals}
observers == IF observer.reg THEN {"observer"} ELSE {}

Pending(S)  == {i \in DOMAIN S.timers : S.timers[i].role \notin Intervals}

\* line 8: isChromeAPIAvailable
isChromeAPIAvailable(S) == S.host \notin {"down", "norun"}

\* Default with an absent key read as false
DefaultAbsentFalse(v) == v = "true"

\* `=== undefined ? true : value` (lines 236, 257, 609, 675, 814, 852)
Default(v) == IF v = "absent" THEN TRUE ELSE v = "true"

Throw(S)        == [S EXCEPT !.exc = TRUE]
Caught(S)       == [S EXCEPT !.exc = FALSE]
Uncaught(S)     == IF S.exc THEN [S EXCEPT !.exc = FALSE, !.last.threw = TRUE] ELSE S

\* ------------------------------------------------- resource tracker (68-179)
\* lines 68-92: the handle is pushed to timeouts
safeSetTimeout(S, role, en) ==
  [S EXCEPT !.timers = Append(@, Timer(role, en, "none", 0, TRUE))]

\* lines 95-120: the handle is pushed to intervals
safeSetInterval(S, role) ==
  [S EXCEPT !.timers = Append(@, Timer(role, FALSE, "none", 0, TRUE))]

\* the runtime retires timer i (a one-shot fires, clearInterval/clearTimeout
\* is called); its handle, when registered, is still in the registry
Retire(S, i, registry) ==
  [S EXCEPT !.timers = RemoveAt(@, i),
            !.stale[registry] = IF S.timers[i].reg THEN @ + 1 ELSE @]

\* lines 72-75, 126-129, 139-142: indexOf the handle, splice when found
Splice(S, registry, found) ==
  IF found THEN [S EXCEPT !.stale[registry] = @ - 1] ELSE S

\* lines 123-133 (and 136-146): clear the timer and drop its handle
clearSafeInterval(S, i) ==
  IF i \in DOMAIN S.timers
  THEN Splice(Retire(S, i, "intervals"), "intervals", S.timers[i].reg)
  ELSE S

IndexOf(S, role) ==
  LET I == {i \in DOMAIN S.timers : S.timers[i].role = role}
  IN  IF I = {} THEN 0 ELSE CHOOSE i \in I : \A j \in I : i <= j

\* cleanupWith when a failing clear or disconnect is not caught per element
\* (no inner try of lines 153-155, 161-163, 169-171): the outer catch of line
\* 176 ends the function at the failure
cleanupAbortsOnFailure(S, F, obsFails) ==
  IF F = {} /\ ~obsFails
  THEN [S EXCEPT !.timers   = SelectSeq(@, LAMBDA t : ~t.reg),
                 !.stale    = [timeouts |-> 0, intervals |-> 0],
                 !.observer = IF @.reg THEN [@ EXCEPT !.connected = FALSE, !.reg = FALSE] ELSE @,
                 !.tornDown = TRUE]
  ELSE [S EXCEPT !.tornDown = TRUE]

\* lines 149-179 when clearInterval/clearTimeout raises for the handles in F
\* and disconnect raises when obsFails: each failure is caught on its own, the
\* remaining handles are cleared, the registries are emptied
cleanupWith(S, F, obsFails) ==
  [S EXCEPT !.timers   = SelectSeq([i \in DOMAIN @ |->
                                      IF i \in F THEN [@[i] EXCEPT !.reg = FALSE] ELSE @[i]],
                                   LAMBDA t : ~t.reg),
            !.stale    = [timeouts |-> 0, intervals |-> 0],
            !.observer = IF @.reg
                         THEN [@ EXCEPT !.connected = obsFails /\ @, !.reg = FALSE]
                         ELSE @,
            !.tornDown = TRUE]

\* lines 149-179: every registered handle is cleared, every registered
\* observer disconnected, the registries emptied; unregistered timers survive
cleanupResources(S) == cleanupWith(S, {}, FALSE)

\* ------------------------------------------------- defensive store write
\* lines 44-65: false when the API is gone or the call throws, else the write
safeSet(S, key, en) ==
  IF ~isChromeAPIAvailable(S) THEN [S EXCEPT !.ret = FALSE]
  ELSE IF S.host # "up" THEN [S EXCEPT !.ret = FALSE]
  ELSE [S EXCEPT !.store[key] = IF en THEN "true" ELSE "false", !.ret = TRUE]

\* ------------------------------------------------- visibility policy
\* HideEl without the setAttribute of the hidden marker
HideElNoMarker(e) == [e EXCEPT !.display = "none"]

\* lines 315-318, 728-731
HideEl(e) == [e EXCEPT !.display = "none", !.marked = TRUE]

\* lines 321-326, 753-758, 821-826, 859-864
ShowEl(e) == [e EXCEPT !.display = "", !.vis = TRUE, !.marked = FALSE]

\* BodyClasses with classList.toggle in place of classList.add
BodyClassesToggle(cs, en) ==
  LET on == IF en THEN Active ELSE Disabled
      off == IF en THEN Disabled ELSE Active
  IN  (IF on \in cs THEN cs \ {on} ELSE cs \cup {on}) \ {off}

\* BodyClasses without the classList.remove of lines 294, 297, 722, 747
BodyClassesNoRemove(cs, en) == cs \cup {IF en THEN Active ELSE Disabled}

\* lines 291-298, 721-722, 746-747: the two body classes
BodyClasses(cs, en) ==
  IF en THEN (cs \cup {Active}) \ {Disabled} ELSE (cs \cup {Disabled}) \ {Active}

\* lines 300-306, 736-739, 763-766: the placeholder, when it exists
ShowPlaceholder(p, en) ==
  IF p = "absent" THEN p ELSE IF en THEN "flex" ELSE "none"

\* lines 286-335: updateBlockerState's applyChanges
applyChanges(S, en) ==
  IF ~S.body THEN S
  ELSE [S EXCEPT !.classes     = BodyClasses(@, en),
                 !.placeholder = ShowPlaceholder(@, en),
                 !.els = [e \in Elems |->
                            IF ~S.els[e].in THEN S.els[e]
                            ELSE IF en THEN HideEl(S.els[e]) ELSE ShowEl(S.els[e])]]

\* a listener added after DOMContentLoaded was dispatched is never invoked
AddDCL(S, fn, en) ==
  IF S.phase \in {"loading", "interactive"}
  THEN [S EXCEPT !.dcl = Append(@, [fn |-> fn, en |-> en])]
  ELSE S

\* lines 279-349
updateBlockerState(S, en) ==
  IF ~isChromeAPIAvailable(S) THEN S
  ELSE LET S1 == safeSet(S, "feed", en)
           S2 == IF S1.body THEN applyChanges(S1, en) ELSE S1
           S3 == safeSetTimeout(S2, "apply", en)
       IN  IF S3.phase # "complete" THEN AddDCL(S3, "apply", en) ELSE S3

\* ------------------------------------------------- read callbacks
\* lines 235-241: the start-up read's callback; updateNewsBlockerState is
\* defined only inside the comment of lines 454-542, so the call raises
CbInit(S, res) ==
  LET feedEnabled == Default(res.feed)
      newsEnabled == Default(res.news)
      S1 == [S EXCEPT !.last.res = res, !.last.args = << feedEnabled, newsEnabled >>]
  IN  Throw(updateBlockerState(S1, feedEnabled))

\* lines 256-263
CbGetState(S, res) ==
  [S EXCEPT !.responses = Append(@, [enabled    |-> Default(res.feed),
                                     newsEnabled |-> Default(res.news)])]

\* lines 608-613: replacementEl is the node createReplacement made; when the
\* page has removed it since, the document is not affected
CbSeed(S, res) ==
  IF S.placeholder = "absent" THEN S
  ELSE [S EXCEPT !.placeholder = IF Default(res.feed) THEN "flex" ELSE "none"]

\* lines 679-715: the news pass acts only when the preference is on
NewsPass(S, res) ==
  IF Default(res.news) /\ S.body
  THEN [S EXCEPT !.classes = @ \cup {NewsOn},
                 !.news = [e \in NewsEls |->
                             IF S.news[e].in /\ ~S.news[e].marked
                             THEN [S.news[e] EXCEPT !.display = "none", !.marked = TRUE]
                             ELSE S.news[e]]]
  ELSE S

\* FeedPass without the forEach of lines 726-733 and 751-760
FeedPassClassesOnly(S, res) ==
  IF ~S.body THEN S
  ELSE [S EXCEPT !.classes = BodyClasses(@, Default(res.feed)),
                 !.placeholder = ShowPlaceholder(@, Default(res.feed))]

\* lines 718-770
FeedPass(S, res) ==
  IF ~S.body THEN S
  ELSE IF Default(res.feed)
  THEN [S EXCEPT !.classes = BodyClasses(@, TRUE),
                 !.els = [e \in Elems |->
                            IF S.els[e].in /\ ~S.els[e].marked
                            THEN HideEl(S.els[e]) ELSE S.els[e]],
                 !.placeholder = ShowPlaceholder(@, TRUE)]
  ELSE [S EXCEPT !.classes = BodyClasses(@, FALSE),
                 !.els = [e \in Elems |->
                            IF S.els[e].in /\ S.els[e].marked
                            THEN ShowEl(S.els[e]) ELSE S.els[e]],
                 !.placeholder = ShowPlaceholder(@, FALSE)]

\* lines 674-771: the reconciliation pass; last.res keeps what it read
CbRecon(S, res) ==
  FeedPass(NewsPass([S EXCEPT !.recon.due = @ - 1, !.last.resp = "pass",
                              !.last.res = res], res), res)

\* lines 813-830 and 851-868: the click check and the backstop sweep
CbSweep(S, res) ==
  IF Default(res.feed) THEN S
  ELSE [S EXCEPT !.els = [e \in Elems |->
                            IF S.els[e].in /\ (S.els[e].display = "none" \/ S.els[e].marked)
                            THEN ShowEl(S.els[e]) ELSE S.els[e]]]

\* a caller's callback that only records what it was handed
CbProbe(S, res) == [S EXCEPT !.last.resp = IF res = Empty THEN "empty" ELSE "values"]

\* the callback handed to safeGet, invoked once with a result
Callback(S, cb, res) ==
  LET S1 == [S EXCEPT !.owed = @ - 1]
  IN  CASE cb = "init"     -> CbInit(S1, res)
        [] cb = "getState" -> CbGetState(S1, res)
        [] cb = "seed"     -> CbSeed(S1, res)
        [] cb = "recon"    -> CbRecon(S1, res)
        [] cb = "click"    -> CbSweep(S1, res)
        [] cb = "sweep"    -> CbSweep(S1, res)
        [] cb = "probe"    -> CbProbe(S1, res)

\* ------------------------------------------------- defensive store read
\* the keys each call asks for (lines 235, 256, 608, 674, 813, 851)
Result(S, cb) ==
  [feed |-> S.store.feed,
   news |-> IF cb \in {"init", "getState", "recon"} THEN S.store.news ELSE "absent"]

\* what the store answered to the getState request's read: the outcome and
\* the result object handed to the completion
Note(S, cb, out, res) ==
  IF cb = "getState" THEN [S EXCEPT !.get.outs = Append(@, out), !.get.res = res] ELSE S

\* lines 20-41, one attempt: the call throws (caught, callback({})) or the
\* read is in flight; the store answers requests in the order they were made
safeGetTry(S, cb, retries) ==
  LET S1 == IF cb = "getState" THEN [S EXCEPT !.get.att = @ + 1] ELSE S
  IN  IF S1.host \in {"invalidated", "down"}
      THEN Callback(Note(S1, cb, "throw", Empty), cb, Empty)
      ELSE [S1 EXCEPT !.reads = Append(@, [cb |-> cb, retries |-> retries,
                                           res |-> Result(S1, cb)])]

\* lines 20-41 with the default budget
safeGet(S, cb) == safeGetTry([S EXCEPT !.owed = @ + 1], cb, DefaultRetries)

\* ShouldRetry without the test of the error message
ShouldRetryAnyError(retries, out) == retries > 0

\* line 24
ShouldRetry(retries, out) == retries > 0 /\ out = "transient"

\* OnLastError without the return of line 27: the retry is scheduled and the
\* callback gets the empty result as well
OnLastErrorNoReturn(S, r, out) ==
  IF r.retries > 0 /\ out = "transient"
  THEN Callback([S EXCEPT !.timers = Append(@, Timer("retry", FALSE, r.cb, r.retries - 1, FALSE))],
                r.cb, Empty)
  ELSE Callback(S, r.cb, Empty)

\* lines 23-33: lastError is set
OnLastError(S, r, out) ==
  IF ShouldRetry(r.retries, out)
  THEN [S EXCEPT !.timers = Append(@, Timer("retry", FALSE, r.cb, r.retries - 1, FALSE))]
  ELSE Callback(S, r.cb, Empty)

\* lines 22-36: the store's completion callback; line 23 reads
\* chrome.runtime.lastError, a TypeError when chrome.runtime is undefined
Completion(S, r, out) ==
  IF S.host = "norun" THEN Throw(S)
  ELSE IF out # "ok" THEN OnLastError(Note(S, r.cb, out, Empty), r, out)
  ELSE Callback(Note(S, r.cb, out, r.res), r.cb, r.res)

\* ------------------------------------------------- placeholder injection
\* lines 570-623: createReplacement once the container is found and the
\* polling cancelled
insertReplacement(S1) ==
  IF S1.placeholder # "absent" THEN [S1 EXCEPT !.ret = TRUE]
  ELSE LET S2 == [S1 EXCEPT !.placeholder = "", !.phCount = @ + 1,
                            !.phMade = @ + 1, !.mut = TRUE]
           S3 == IF isChromeAPIAvailable(S2) THEN safeGet(S2, "seed")
                 ELSE [S2 EXCEPT !.placeholder = "flex"]
       IN  [S3 EXCEPT !.ret = TRUE]

\* createReplacement without the clearSafeInterval of lines 565-568
createReplacementKeepsPolling(S) ==
  IF ~S.els[Anchor].in THEN [S EXCEPT !.ret = FALSE] ELSE insertReplacement(S)

\* lines 558-628: createReplacement; .ret is its return value
createReplacement(S) ==
  IF ~S.els[Anchor].in THEN [S EXCEPT !.ret = FALSE]
  ELSE insertReplacement(IF S.pollId
                         THEN [clearSafeInterval(S, IndexOf(S, "poll")) EXCEPT !.pollId = FALSE]
                         ELSE S)

\* lines 548-645
createReplacementContent(S) ==
  LET S1 == createReplacement([S EXCEPT !.pollId = FALSE, !.injections = @ + 1])
  IN  IF S1.ret THEN S1
      ELSE safeSetTimeout([safeSetInterval(S1, "poll") EXCEPT !.pollId = TRUE], "giveup", FALSE)

\* ------------------------------------------------- mutation observer
\* ObserverCallback without the throttle test of lines 666-668
ObserverCallbackNoThrottle(S) ==
  LET S1 == [S EXCEPT !.after = @ \/ S.tornDown]
  IN  IF ~isChromeAPIAvailable(S1)
      THEN [S1 EXCEPT !.observer.connected = FALSE, !.observer.reg = FALSE]
      ELSE IF ~S1.body THEN S1
      ELSE [safeSetTimeout(S1, "recon", FALSE)
              EXCEPT !.observer.timeout = TRUE,
                     !.recon.burst = IF ~S1.observer.timeout THEN 1
                                     ELSE IF @ < MaxBurst THEN @ + 1 ELSE @]

\* lines 650-777: the observer's callback
ObserverCallback(S) ==
  LET S1 == [S EXCEPT !.after = @ \/ S.tornDown]
  IN  IF ~isChromeAPIAvailable(S1)
      THEN [S1 EXCEPT !.observer.connected = FALSE, !.observer.reg = FALSE]
      ELSE IF ~S1.body THEN S1
      ELSE IF S1.observer.timeout
      THEN [S1 EXCEPT !.recon.burst = IF @ < MaxBurst THEN @ + 1 ELSE @]
      ELSE [safeSetTimeout(S1, "recon", FALSE) EXCEPT !.observer.timeout = TRUE,
                                                      !.recon.burst = 1]

\* lines 783-794
startObserving(S) ==
  IF S.body THEN [S EXCEPT !.observer.connected = TRUE, !.mut = FALSE] ELSE S

\* lines 803-837
clickHandler(S) ==
  IF ~isChromeAPIAvailable(S) THEN [S EXCEPT !.listeners.click = 0]
  ELSE safeSetTimeout(S, "click", FALSE)

\* lines 648-874
setupMutationObserver(S) ==
  LET S1 == [S EXCEPT !.observer = [n |-> @.n + 1, connected |-> FALSE,
                                    reg |-> TRUE, timeout |-> FALSE]]
      S2 == AddDCL(startObserving(S1), "startObserving", FALSE)
      S3 == [S2 EXCEPT !.listeners.click = @ + 1]
  IN  safeSetInterval(S3, "sweep")

\* mutation records are delivered when the task that made them ends
Finish(S) ==
  IF S.mut /\ S.observer.connected
  THEN ObserverCallback([S EXCEPT !.mut = FALSE])
  ELSE [S EXCEPT !.mut = FALSE]

\* ------------------------------------------------- session controller
\* lines 226-275: initFeedBlocker after its guard
initFeedBlockerBody(S) ==
  LET S1 == [S EXCEPT !.initialized = TRUE]
  IN  IF ~isChromeAPIAvailable(S1) THEN S1
      ELSE LET S2 == safeGet(S1, "init")
           IN  IF S2.exc THEN S2
               ELSE setupMutationObserver(
                      createReplacementContent(
                        [S2 EXCEPT !.listeners.msg = @ + 1]))

\* initFeedBlocker without the guard of line 225
initFeedBlockerUnguarded(S) == initFeedBlockerBody(S)

\* lines 223-276
initFeedBlocker(S) ==
  IF S.initialized THEN S ELSE initFeedBlockerBody(S)

\* lines 877-893
handleExtensionInvalidation(S) ==
  safeSetInterval([S EXCEPT !.listeners.error = @ + 1], "watchdog")

\* lines 896-919
safeInit(S) ==
  IF ~isChromeAPIAvailable(S) THEN S
  ELSE safeSetTimeout(handleExtensionInvalidation(S), "init", FALSE)

\* lines 245-266: the onMessage listener; .last.resp is what the sender gets
onMessage(S, action, en) ==
  IF ~isChromeAPIAvailable(S) THEN S
  ELSE CASE action = "toggleFeedBlocker" ->
              [updateBlockerState(S, en) EXCEPT !.last.resp = "success",
                                                !.toggles = Append(@, en)]
         [] action = "toggleNewsBlocker" -> Throw(S)
         [] action = "getState" ->
              [safeGet([S EXCEPT !.get = [att |-> 0, delays |-> 0, outs |-> << >>, res |-> Empty],
                                 !.responses = << >>], "getState")
                 EXCEPT !.last.resp = "async"]

\* ------------------------------------------------- timer callbacks
\* giveUp without the clearSafeInterval of line 640
giveUpKeepsPolling(S) ==
  IF S.pollId THEN [S EXCEPT !.pollId = FALSE, !.gaveUp = TRUE] ELSE S

\* lines 638-643: the 10 s timeout of createReplacementContent
giveUp(S) ==
  IF S.pollId
  THEN [clearSafeInterval(S, IndexOf(S, "poll")) EXCEPT !.pollId = FALSE, !.gaveUp = TRUE]
  ELSE S

\* the bodies handed to safeSetTimeout (lines 343, 638-643, 670-772, 812-831, 907-915)
TimeoutBody(S, t) ==
  CASE t.role = "init"   -> IF isChromeAPIAvailable(S) THEN initFeedBlocker(S) ELSE S
    [] t.role = "apply"  -> applyChanges(S, t.en)
    [] t.role = "giveup" -> giveUp(S)
    [] t.role = "recon"  -> safeGet([S EXCEPT !.observer.timeout = FALSE,
                                              !.recon = [burst |-> 0, served |-> @.burst,
                                                         due |-> @.due + 1]], "recon")
    [] t.role = "click"  -> safeGet(S, "click")

\* FireTimeout without the splice of lines 72-75
FireTimeoutKeepsHandle(S, i) ==
  Caught(TimeoutBody(Retire(S, i, "timeouts"), S.timers[i]))

\* lines 70-83: the handle leaves timeouts, then the callback runs in a try
FireTimeout(S, i) ==
  Caught(TimeoutBody(Splice(Retire(S, i, "timeouts"), "timeouts", S.timers[i].reg),
                     S.timers[i]))

\* line 26: the retry delay is a plain setTimeout around safeGet
FireRetry(S, i) ==
  LET t  == S.timers[i]
      S1 == Retire(S, i, "timeouts")
      S2 == IF t.cb = "getState" THEN [S1 EXCEPT !.get.delays = @ + 1] ELSE S1
  IN  Uncaught(safeGetTry(S2, t.cb, t.retries))

\* the bodies handed to safeSetInterval (lines 635, 843-873, 886-892)
IntervalBody(S, i) ==
  LET role == S.timers[i].role
  IN  CASE role = "watchdog" ->
             IF ~isChromeAPIAvailable(S)
             THEN LET S1 == cleanupResources(S) IN clearSafeInterval(S1, IndexOf(S1, "watchdog"))
             ELSE S
        [] role = "poll"  -> createReplacement(S)
        [] role = "sweep" ->
             IF ~isChromeAPIAvailable(S) THEN clearSafeInterval(S, i)
             ELSE safeGet(S, "sweep")

\* TickWrapper without the clearSafeInterval of line 109
TickWrapperKeepsTimer(S, i, S1) ==
  IF ~isChromeAPIAvailable(S) THEN clearSafeInterval(S, i) ELSE Caught(S1)

\* lines 97-111: the guard first, then the callback in a try; S1 is the state
\* the callback leaves
TickWrapper(S, i, S1) ==
  IF ~isChromeAPIAvailable(S) THEN clearSafeInterval(S, i)
  ELSE IF S1.exc THEN clearSafeInterval(Caught(S1), i) ELSE S1

\* a tick of recurring timer i
TickInterval(S, i) == TickWrapper(S, i, IntervalBody(S, i))

\* a one-shot timer cannot fire before an older one of no longer delay
MayFire(S, i) ==
  /\ i \in Pending(S)
  /\ \A j \in Pending(S) : j < i => Delay(S.timers[j].role) > Delay(S.timers[i].role)

RECURSIVE RunListeners(_, _)
\* lines 347, 800, 923: the {once:true} DOMContentLoaded listeners, in order
RunListeners(S, ls) ==
  IF ls = << >> THEN S
  ELSE LET l  == Head(ls)
           S1 == CASE l.fn = "safeInit"       -> safeInit(S)
                   [] l.fn = "startObserving" -> startObserving(S)
                   [] l.fn = "apply"          -> applyChanges(S, l.en)
       IN  RunListeners(S1, Tail(ls))

\* ------------------------------------------------- the tasks of the page
Begin(op, en) ==
  [St EXCEPT !.last = [op |-> op, en |-> en, resp |-> "none", threw |-> FALSE,
                       res |-> Empty, args |-> << >>]]

\* lines 235 and 608 run in one task when the container is there at start-up:
\* the seeding read queued right behind the start-up read counts with it
InFlight(n) ==
  Len(n.reads) - (IF \E k \in 1 .. Len(n.reads) - 1 :
                        n.reads[k].cb = "init" /\ n.reads[k + 1].cb = "seed"
                  THEN 1 ELSE 0)

Within(n) ==
  /\ Cardinality(Pending(n)) <= MaxTimeouts
  /\ InFlight(n) <= MaxReads

Commit(n) == LET m == Finish(n) IN Within(m) /\ Becomes(m)

FreshEl   == [in |-> FALSE, marked |-> FALSE, display |-> "", vis |-> FALSE]
FreshNews == [in |-> FALSE, marked |-> FALSE, display |-> ""]

Init ==
  /\ host = "up"
  /\ store \in [feed : Values, news : Values]
  /\ initialized = FALSE
  /\ timers = << >>
  /\ stale = [timeouts |-> 0, intervals |-> 0]
  /\ reads = << >>
  /\ observer = [n |-> 0, connected |-> FALSE, reg |-> FALSE, timeout |-> FALSE]
  /\ pollId = FALSE
  /\ phase \in {"loading", "interactive", "domready", "complete"}
  /\ body \in (IF phase = "loading" THEN BOOLEAN ELSE {TRUE})
  /\ classes = {}
  /\ placeholder = "absent"
  /\ phCount = 0
  /\ phMade = 0
  /\ injections = 0
  /\ gaveUp = FALSE
  /\ recon = [burst |-> 0, served |-> 0, due |-> 0]
  /\ els = [e \in Elems |-> FreshEl]
  /\ news = [e \in NewsEls |-> FreshNews]
  /\ dcl = << >>
  /\ listeners = [load |-> FALSE, msg |-> 0, click |-> 0, error |-> 0]
  /\ started = FALSE
  /\ responses = << >>
  /\ get = [att |-> 0, delays |-> 0, outs |-> << >>, res |-> Empty]
  /\ owed = 0
  /\ toggles = << >>
  /\ clicks = 0
  /\ tornDown = FALSE
  /\ after = FALSE
  /\ last = [op |-> "none", en |-> FALSE, resp |-> "none", threw |-> FALSE,
             res |-> Empty, args |-> << >>]

\* lines 921-936: the content script's top-level code
Start ==
  /\ ~started
  /\ LET S0 == [Begin("task", FALSE) EXCEPT !.started = TRUE]
         S1 == IF S0.phase = "loading" THEN AddDCL(S0, "safeInit", FALSE) ELSE safeInit(S0)
     IN  Commit([S1 EXCEPT !.listeners.load = (S1.phase # "complete")])

\* the parser creates document.body
BodyParsed ==
  /\ phase = "loading" /\ ~body
  /\ Commit([Begin("task", FALSE) EXCEPT !.body = TRUE])

\* document.readyState becomes "interactive"
ParseDone ==
  /\ phase = "loading" /\ body
  /\ Commit([Begin("task", FALSE) EXCEPT !.phase = "interactive"])

\* the DOMContentLoaded event
DOMContentLoaded ==
  /\ phase = "interactive"
  /\ LET S0 == [Begin("task", FALSE) EXCEPT !.phase = "domready", !.dcl = << >>]
     IN  Commit(RunListeners(S0, dcl))

\* lines 929-933: readyState becomes "complete" and the load event fires
Load ==
  /\ phase = "domready"
  /\ LET S0 == [Begin("task", FALSE) EXCEPT !.phase = "complete", !.listeners.load = FALSE]
     IN  Commit(IF listeners.load /\ ~S0.initialized /\ isChromeAPIAvailable(S0)
                THEN safeInit(S0) ELSE S0)

\* the page adds a feed-matching element
PageInsert(e) ==
  /\ body /\ ~els[e].in
  /\ Commit([Begin("task", FALSE) EXCEPT !.els[e] = [FreshEl EXCEPT !.in = TRUE],
                                          !.mut = TRUE])

\* the page removes a feed-matching element
PageRemove(e) ==
  /\ els[e].in
  /\ Commit([Begin("task", FALSE) EXCEPT !.els[e] = FreshEl, !.mut = TRUE])

\* the page adds a news-panel element
PageInsertNews(e) ==
  /\ body /\ ~news[e].in
  /\ Commit([Begin("task", FALSE) EXCEPT !.news[e] = [FreshNews EXCEPT !.in = TRUE],
                                              !.mut = TRUE])

\* the page removes the placeholder node (a re-render of the feed column)
PageRemovePlaceholder ==
  /\ placeholder # "absent"
  /\ Commit([Begin("task", FALSE) EXCEPT !.placeholder = "absent", !.phCount = @ - 1,
                                          !.mut = TRUE])

\* a click anywhere in the document
Click ==
  /\ listeners.click > 0 /\ clicks < MaxClicks
  /\ Commit(clickHandler([Begin("task", FALSE) EXCEPT !.clicks = @ + 1]))

\* the popup's {action: 'toggleFeedBlocker', enabled}
ToggleFeed(en) ==
  /\ listeners.msg > 0 /\ Len(toggles) < MaxToggles
  /\ Commit(onMessage(Begin("toggleFeedBlocker", en), "toggleFeedBlocker", en))

\* the popup's {action: 'toggleNewsBlocker', enabled}
ToggleNews(en) ==
  /\ listeners.msg > 0
  /\ Commit(Uncaught(onMessage(Begin("toggleNewsBlocker", en), "toggleNewsBlocker", en)))

GetOpen ==
  \/ \E i \in DOMAIN reads : reads[i].cb = "getState"
  \/ \E i \in DOMAIN timers : timers[i].cb = "getState"

\* the popup's {action: 'getState'}, one request at a time
GetState ==
  /\ listeners.msg > 0 /\ ~GetOpen
  /\ Commit(onMessage(Begin("getState", FALSE), "getState", FALSE))

\* lines 878-883: an error event that carries 'Extension context invalidated'
ErrorEvent ==
  /\ listeners.error > 0
  /\ Commit(cleanupResources(Begin("task", FALSE)))

\* line 936: beforeunload (the navigation may still be cancelled)
BeforeUnload ==
  /\ started
  /\ Commit(cleanupResources(Begin("task", FALSE)))

\* the extension is reloaded or removed: calls into it start to throw
HostInvalidate ==
  /\ host = "up"
  /\ Commit([Begin("task", FALSE) EXCEPT !.host = "invalidated"])

\* the API objects are gone
HostDown ==
  /\ host # "down"
  /\ Commit([Begin("task", FALSE) EXCEPT !.host = "down"])

Ran(S) == [S EXCEPT !.after = @ \/ S.tornDown]

\* a tracked one-shot timer fires
Fire(i) ==
  /\ MayFire(St, i) /\ timers[i].role # "retry"
  /\ Commit(FireTimeout(Ran(Begin("task", FALSE)), i))

\* safeGet's retry delay elapses
Retry(i) ==
  /\ MayFire(St, i) /\ timers[i].role = "retry"
  /\ Commit(FireRetry(Ran(Begin("task", FALSE)), i))

\* a recurring timer ticks
Tick(i) ==
  /\ i \in DOMAIN timers /\ timers[i].role \in Intervals
  /\ Commit(TickInterval(Ran(Begin(IF isChromeAPIAvailable(St) THEN "task" ELSE timers[i].role, FALSE)), i))

\* the store answers the oldest read: with the values, or with lastError set
DeliverRead(out) ==
  /\ reads # << >>
  /\ LET S0 == [Begin("task", FALSE) EXCEPT !.reads = Tail(@)]
     IN  Commit(Uncaught(Completion(S0, Head(reads), out)))

Next ==
  \/ Start
  \/ BodyParsed
  \/ ParseDone
  \/ DOMContentLoaded
  \/ Load
  \/ \E e \in Elems : PageInsert(e)
  \/ \E e \in Elems : PageRemove(e)
  \/ \E e \in NewsEls : PageInsertNews(e)
  \/ PageRemovePlaceholder
  \/ Click
  \/ \E en \in BOOLEAN : ToggleFeed(en)
  \/ \E en \in BOOLEAN : ToggleNews(en)
  \/ GetState
  \/ ErrorEvent
  \/ BeforeUnload
  \/ HostInvalidate
  \/ HostDown
  \/ \E i \in 1 .. Len(timers) : Fire(i)
  \/ \E i \in 1 .. Len(timers) : Retry(i)
  \/ \E i \in 1 .. Len(timers) : Tick(i)
  \/ \E out \in {"ok", "transient", "error"} : DeliverRead(out)

Spec == Init /\ [][Next]_vars

\* ------------------------------------------------- scenarios
\* Each scenario keeps every handler whole and restricts what the page, the
\* popup and the extension runtime do around them.

\* the script is injected when the document is complete (run_at document_idle)
InitIdle == Init /\ phase = "complete"

\* this version of the popup never writes newsBlockerEnabled (popup.js 140-160)
InitFeed == InitIdle /\ store.news = "absent"

\* start-up, page lifecycle, loss of the extension runtime and teardown
NextBoot ==
  \/ Start
  \/ BodyParsed
  \/ ParseDone
  \/ DOMContentLoaded
  \/ Load
  \/ PageInsert(Anchor)
  \/ HostInvalidate
  \/ HostDown
  \/ ErrorEvent
  \/ BeforeUnload
  \/ \E i \in 1 .. Len(timers) : Fire(i)
  \/ \E i \in 1 .. Len(timers) : Retry(i)
  \/ \E i \in 1 .. Len(timers) : Tick(i)
  \/ \E out \in {"ok", "transient", "error"} : DeliverRead(out)

SpecBoot == Init /\ [][NextBoot]_vars

\* the popup queries the state and toggles the news blocker; the runtime may
\* be lost and the resources torn down at any moment
NextGet ==
  \/ Start
  \/ GetState
  \/ \E en \in BOOLEAN : ToggleNews(en)
  \/ HostInvalidate
  \/ HostDown
  \/ ErrorEvent
  \/ BeforeUnload
  \/ \E i \in 1 .. Len(timers) : Fire(i)
  \/ \E i \in 1 .. Len(timers) : Retry(i)
  \/ \E i \in 1 .. Len(timers) : Tick(i)
  \/ \E out \in {"ok", "transient", "error"} : DeliverRead(out)

SpecGet == InitIdle /\ [][NextGet]_vars

\* the popup toggles the feed blocker while the page adds feed elements
NextTog ==
  \/ Start
  \/ \E e \in Elems : PageInsert(e)
  \/ \E en \in BOOLEAN : ToggleFeed(en)
  \/ HostInvalidate
  \/ HostDown
  \/ \E i \in 1 .. Len(timers) : Fire(i)
  \/ \E i \in 1 .. Len(timers) : Retry(i)
  \/ \E i \in 1 .. Len(timers) : Tick(i)
  \/ \E out \in {"ok", "transient", "error"} : DeliverRead(out)

SpecTog == InitFeed /\ [][NextTog]_vars

\* the toggles of the convergence scenario, in order
ConvPattern == << TRUE, FALSE, TRUE >>

ToggleNext ==
  /\ listeners.msg > 0 /\ Len(toggles) < Len(ConvPattern)
  /\ LET en == ConvPattern[Len(toggles) + 1]
     IN  Commit(onMessage(Begin("toggleFeedBlocker", en), "toggleFeedBlocker", en))

\* enabled = true, false, true with the host up throughout
NextConv ==
  \/ Start
  \/ \E e \in Elems : PageInsert(e)
  \/ ToggleNext
  \/ Click
  \/ \E i \in 1 .. Len(timers) : Fire(i)
  \/ \E i \in 1 .. Len(timers) : Retry(i)
  \/ \E i \in 1 .. Len(timers) : Tick(i)
  \/ \E out \in {"ok", "transient", "error"} : DeliverRead(out)

SpecConv == InitFeed /\ [][NextConv]_vars

\* a call of initFeedBlocker() from the page's script context, at any moment
\* after the script has loaded
CallStart ==
  /\ started
  /\ Commit(Uncaught(initFeedBlocker(Begin("start", FALSE))))

\* start-up with the host up throughout: the page lifecycle, the init timers
\* and calls of initFeedBlocker in every order
NextStart ==
  \/ Start
  \/ BodyParsed
  \/ ParseDone
  \/ DOMContentLoaded
  \/ Load
  \/ PageInsert(Anchor)
  \/ CallStart
  \/ \E i \in 1 .. Len(timers) : Fire(i)
  \/ \E i \in 1 .. Len(timers) : Retry(i)
  \/ \E i \in 1 .. Len(timers) : Tick(i)
  \/ \E out \in {"ok", "transient", "error"} : DeliverRead(out)

SpecStart == Init /\ [][NextStart]_vars

\* the API objects are reachable again: isChromeAPIAvailable evaluates
\* `typeof chrome...` afresh at every call
HostRestore ==
  /\ host = "down"
  /\ Commit([Begin("task", FALSE) EXCEPT !.host = "up"])

\* initFeedBlocker called while the host comes and goes
NextGuard ==
  \/ Start
  \/ CallStart
  \/ HostDown
  \/ HostRestore
  \/ \E i \in 1 .. Len(timers) : Fire(i)
  \/ \E i \in 1 .. Len(timers) : Retry(i)
  \/ \E i \in 1 .. Len(timers) : Tick(i)
  \/ \E out \in {"ok", "transient", "error"} : DeliverRead(out)

SpecGuard == InitIdle /\ [][NextGuard]_vars

\* placeholder injection while the container comes late and the page may
\* remove the placeholder again
NextInject ==
  \/ Start
  \/ PageInsert(Anchor)
  \/ PageRemove(Anchor)
  \/ PageRemovePlaceholder
  \/ \E i \in 1 .. Len(timers) : Fire(i)
  \/ \E i \in 1 .. Len(timers) : Retry(i)
  \/ \E i \in 1 .. Len(timers) : Tick(i)
  \/ \E out \in {"ok", "transient", "error"} : DeliverRead(out)

SpecInject == InitIdle /\ [][NextInject]_vars

\* the page churns (feed elements come and go) with the host up
NextObs ==
  \/ Start
  \/ \E e \in Elems : PageInsert(e)
  \/ \E e \in Elems : PageRemove(e)
  \/ \E i \in 1 .. Len(timers) : Fire(i)
  \/ \E i \in 1 .. Len(timers) : Retry(i)
  \/ \E i \in 1 .. Len(timers) : Tick(i)
  \/ \E out \in {"ok", "transient", "error"} : DeliverRead(out)

SpecObs == InitFeed /\ [][NextObs]_vars

\* feed blocking is enabled in the store: the key is true, or absent
InitOn == InitFeed /\ store.feed # "false"

\* the page churns with the host up and a store that answers each read with
\* the values or with a permanent error
NextHide ==
  \/ Start
  \/ \E e \in Elems : PageInsert(e)
  \/ \E e \in Elems : PageRemove(e)
  \/ \E i \in 1 .. Len(timers) : Fire(i)
  \/ \E i \in 1 .. Len(timers) : Tick(i)
  \/ \E out \in {"ok", "error"} : DeliverRead(out)

\* ENABLED of the step `some tracked one-shot timer fires`, as a state
\* predicate: the guard of Fire and the caps of Commit
CanFire ==
  \E i \in 1 .. Len(timers) :
    /\ MayFire(St, i) /\ timers[i].role # "retry"
    /\ Within(Finish(FireTimeout(Ran(Begin("task", FALSE)), i)))

\* ENABLED of the step `the store answers the oldest read`
CanDeliver ==
  /\ reads # << >>
  /\ \E out \in {"ok", "error"} :
       Within(Finish(Uncaught(Completion([Begin("task", FALSE) EXCEPT !.reads = Tail(@)],
                                         Head(reads), out))))

\* the runtime fires every timer that is due and the store answers every
\* read: strong fairness of both steps, SF_vars(A) written out as
\* <>[]~ENABLED <<A>>_vars \/ []<><<A>>_vars.  The fairness is strong because
\* the caps on pending timers and reads in flight disable a step now and
\* then, which the page itself never does
SpecHide ==
  /\ InitOn /\ [][NextHide]_vars
  /\ (<>[]~CanFire \/ []<><<\E i \in 1 .. Len(timers) : Fire(i)>>_vars)
  /\ (<>[]~CanDeliver \/ []<><<\E out \in {"ok", "error"} : DeliverRead(out)>>_vars)

\* a call of cleanupResources() in which at most one clear raises, and the
\* disconnect may raise
Teardown ==
  /\ started
  /\ \E F \in {{}} \cup {{i} : i \in {j \in DOMAIN timers : timers[j].reg}} :
       \E obsFails \in BOOLEAN :
         Commit(Uncaught(cleanupWith(Begin("teardown", obsFails), F, obsFails)))

\* teardown at any moment, any number of times
NextTeardown ==
  \/ Start
  \/ PageInsert(Anchor)
  \/ Teardown
  \/ \E i \in 1 .. Len(timers) : Fire(i)
  \/ \E i \in 1 .. Len(timers) : Retry(i)
  \/ \E i \in 1 .. Len(timers) : Tick(i)
  \/ \E out \in {"ok", "transient", "error"} : DeliverRead(out)

SpecTeardown == InitIdle /\ [][NextTeardown]_vars

\* chrome.runtime is gone while chrome.storage.local is still there
HostNoRuntime ==
  /\ host = "up"
  /\ Commit([Begin("task", FALSE) EXCEPT !.host = "norun"])

\* a call of safeGet(['feedBlockerEnabled'], callback)
CallGet ==
  /\ started /\ owed < MaxOwed
  /\ Commit(Uncaught(safeGet(Begin("get", FALSE), "probe")))

\* a call of safeSet({feedBlockerEnabled: en}); last.res keeps the store as it
\* was before the call, last.resp the value returned
CallSet(en) ==
  /\ started
  /\ LET S == safeSet([Begin("set", en) EXCEPT !.last.res = store], "feed", en)
     IN  Commit([S EXCEPT !.last.resp = IF S.ret THEN "true" ELSE "false"])

\* the store wrappers called while the host comes and goes
NextUnavail ==
  \/ Start
  \/ CallGet
  \/ \E en \in BOOLEAN : CallSet(en)
  \/ HostDown
  \/ HostNoRuntime
  \/ \E i \in 1 .. Len(timers) : Fire(i)
  \/ \E i \in 1 .. Len(timers) : Retry(i)
  \/ \E i \in 1 .. Len(timers) : Tick(i)
  \/ \E out \in {"ok", "transient", "error"} : DeliverRead(out)

SpecUnavail == InitIdle /\ [][NextUnavail]_vars

\* the script is injected when the document is parsed and DOMContentLoaded
\* is still to come (run_at document_end)
InitEarly == Init /\ phase = "interactive"

\* the host is lost for good at any moment of start-up or later, while the
\* page goes on adding elements and the user clicks
NextLost ==
  \/ Start
  \/ DOMContentLoaded
  \/ Load
  \/ PageInsert(Anchor)
  \/ Click
  \/ HostDown
  \/ \E i \in 1 .. Len(timers) : Fire(i)
  \/ \E i \in 1 .. Len(timers) : Retry(i)
  \/ \E i \in 1 .. Len(timers) : Tick(i)
  \/ \E out \in {"ok", "transient", "error"} : DeliverRead(out)

SpecLost == InitEarly /\ [][NextLost]_vars

\* news panels and feed elements appear with any stored news preference
NextNews ==
  \/ Start
  \/ \E e \in NewsEls : PageInsertNews(e)
  \/ \E e \in Elems : PageInsert(e)
  \/ \E i \in 1 .. Len(timers) : Fire(i)
  \/ \E i \in 1 .. Len(timers) : Retry(i)
  \/ \E i \in 1 .. Len(timers) : Tick(i)
  \/ \E out \in {"ok", "transient", "error"} : DeliverRead(out)

SpecNews == InitIdle /\ [][NextNews]_vars

\* a tick of the watchdog, whose callback (lines 886-892) has no try of its
\* own, in which the callback raises at its first statement
TickRaise(i) ==
  /\ i \in DOMAIN timers /\ timers[i].role = "watchdog"
  /\ LET S == Ran(Begin("raise", FALSE))
     IN  Commit(Uncaught(TickWrapper(S, i, Throw(S))))

\* a recurring timer's callback raises at any moment after start-up
NextRaise ==
  \/ Start
  \/ PageInsert(Anchor)
  \/ \E i \in 1 .. Len(timers) : TickRaise(i)
  \/ \E i \in 1 .. Len(timers) : Fire(i)
  \/ \E i \in 1 .. Len(timers) : Retry(i)
  \/ \E i \in 1 .. Len(timers) : Tick(i)
  \/ \E out \in {"ok", "transient", "error"} : DeliverRead(out)

SpecRaise == InitIdle /\ [][NextRaise]_vars

\* the popup toggles while the placeholder is being injected; every read is
\* answered with the values
NextSeed ==
  \/ Start
  \/ PageInsert(Anchor)
  \/ \E en \in BOOLEAN : ToggleFeed(en)
  \/ \E i \in 1 .. Len(timers) : Fire(i)
  \/ \E i \in 1 .. Len(timers) : Tick(i)
  \/ DeliverRead("ok")

SpecSeed == InitFeed /\ [][NextSeed]_vars

\* ------------------------------------------------- claims
RetryTimers == {i \in DOMAIN timers : timers[i].role = "retry"}

RegistriesEmpty == timeouts = {} /\ intervals = {} /\ observers = {}

\* C1: the watchdog tick that sees the host unavailable runs the full teardown
\* (every tracked timer cleared, every tracked observer disconnected) and
\* stops the watchdog.
C1_WatchdogTearsDown ==
  last.op = "watchdog" => (tornDown /\ RegistriesEmpty)

\* C2: after a full teardown no timer callback and no observer callback of the
\* content script runs and the three registries stay empty, also when store
\* reads or retries were in flight at the teardown.
C2_NothingAfterTeardown ==
  tornDown => (~after /\ RegistriesEmpty)

\* C3: every pending timer of the content script, the storage-read retry
\* delay included, is in the tracker's registry.
C3_EveryTimerTracked ==
  \A i \in DOMAIN timers : timers[i].reg

\* C4: a toggleNewsBlocker message handled while the host is available is
\* acknowledged with {success: true}.
C4_NewsToggleAcknowledged ==
  (last.op = "toggleNewsBlocker" /\ host # "down") => last.resp = "success"

\* C5: after a toggleNewsBlocker message with enabled = v was handled with the
\* host available, the persisted newsBlockerEnabled is v.
C5_NewsTogglePersisted ==
  (last.op = "toggleNewsBlocker" /\ host = "up")
    => store.news = (IF last.en THEN "true" ELSE "false")

\* C6: no task of the content script ends with an exception that escaped the
\* defensive call layer or a store-read completion.
C6_NothingEscapes ==
  ~last.threw

GetDone == get.att > 0 /\ ~GetOpen

Defaults == [enabled |-> TRUE, newsEnabled |-> TRUE]

\* the reply built from the result of the request's last store read
Answer == [enabled |-> Default(get.res.feed), newsEnabled |-> Default(get.res.news)]

C8_BoundedRetry ==
  /\ get.att <= DefaultRetries + 1
  /\ Len(get.outs) <= get.att
  /\ get.att = 2 => get.outs[1] = "transient"
  /\ \A i \in RetryTimers : timers[i].retries = DefaultRetries - 1
  /\ \A i \in DOMAIN reads : reads[i].retries \in 0 .. DefaultRetries
  /\ (GetDone /\ get.outs[Len(get.outs)] # "ok") => responses = << Defaults >>

C8_Witness ==
  /\ GetDone /\ get.outs = << "transient", "transient" >>
  /\ get.att = 2
  /\ store.feed = "false"
  /\ responses = << Defaults >>

Quiescent == reads = << >> /\ Pending(St) = {}

Blocked ==
  /\ Active \in classes
  /\ \A e \in Elems : els[e].in => (els[e].marked /\ els[e].display = "none")

\* C9: after the toggles true, false, true, once no one-shot timer and no read
\* is pending, the feed region is in the blocked state of the last toggle.
C9_ConvergesToLastToggle ==
  (toggles = ConvPattern /\ Quiescent) => Blocked

\* C10: at the end of the handler step of toggleFeedBlocker with enabled =
\* true, host available and body present, every feed-matching element is
\* marked and display:none, the placeholder if present is visible, and the
\* sender has the acknowledgement {success: true}.
C10_ToggleOnBlocksFeed ==
  (last.op = "toggleFeedBlocker" /\ last.en /\ host # "down" /\ body)
    => /\ \A e \in Elems : els[e].in => (els[e].marked /\ els[e].display = "none")
       /\ placeholder # "absent" => placeholder = "flex"
       /\ last.resp = "success"

C10_Witness ==
  /\ last.op = "toggleFeedBlocker" /\ last.en /\ host # "down" /\ body
  /\ \A e \in Elems : els[e].in /\ els[e].marked /\ els[e].display = "none" /\ els[e].vis
  /\ placeholder = "flex"
  /\ last.resp = "success"

\* C11: an absent key reads as true. The start-up read's callback computes
\* feedEnabled and newsEnabled from the result it gets with absent as true (an
\* empty result gives true and true, and feed blocking is switched on); a
\* getState request whose read succeeds is answered once with the values
\* read, absent as true, and the handler has returned true (asynchronous reply).
C11_AbsentReadsAsTrue ==
  /\ last.args # << >> =>
       /\ last.args = << last.res.feed # "false", last.res.news # "false" >>
       /\ (last.res = Empty /\ host = "up" /\ body)
            => (store.feed = "true" /\ Active \in classes)
  /\ (GetDone /\ get.outs[Len(get.outs)] = "ok") =>
       responses = << [enabled    |-> get.res.feed # "false",
                       newsEnabled |-> get.res.news # "false"] >>
  /\ (last.op = "getState" /\ host # "down") => last.resp = "async"

C11_Witness ==
  /\ GetDone /\ get.outs = << "ok" >>
  /\ get.res = [feed |-> "false", news |-> "absent"]
  /\ responses = << [enabled |-> FALSE, newsEnabled |-> TRUE] >>
  /\ last.op = "task"

\* C12: the body of initFeedBlocker takes effect at most once: at most one
\* message listener is registered, at most one mutation observer is created
\* and placeholder injection is started at most once, whatever the order of
\* DOMContentLoaded, load and the init timers.
C12_StartAtMostOnce ==
  /\ listeners.msg <= 1
  /\ observer.n <= 1
  /\ injections <= 1

\* safeInit ran twice (DOMContentLoaded and the load fallback), both init
\* timers fired with the host up, and the body ran once
C12_Witness ==
  /\ listeners.error = 2 /\ host = "up" /\ ~tornDown
  /\ \A i \in DOMAIN timers : timers[i].role # "init"
  /\ initialized /\ listeners.msg = 1 /\ observer.n = 1 /\ injections = 1

\* C13: a call of initFeedBlocker while the host is unavailable changes
\* nothing, so whenever a call of initFeedBlocker returns with the host
\* available the initialisation has been performed (the message listener is
\* registered, the observer created, placeholder injection started).
C13_GuardFailIsNoOp ==
  (last.op = "start" /\ host = "up" /\ ~last.threw)
    => (listeners.msg = 1 /\ observer.n = 1 /\ injections = 1)

\* C14: once the 10 s timeout has cancelled the polling, no polling timer
\* exists (none pending, none registered), so no poll runs any more, and no
\* placeholder exists or is created, also when the container appears later.
C14_GiveUpStopsPolling ==
  gaveUp =>
    /\ ~pollId
    /\ \A i \in DOMAIN timers : timers[i].role # "poll"
    /\ placeholder = "absent" /\ phCount = 0

\* the container appeared after the timeout and a later timer task has run
C14_Witness ==
  /\ gaveUp /\ els[Anchor].in /\ host = "up" /\ ~tornDown
  /\ last.op = "task" /\ reads # << >> /\ Head(reads).cb = "sweep"
  /\ placeholder = "absent"

\* C15: the document never holds more than one placeholder node, and
\* createReplacement inserts a placeholder at most once per page lifetime,
\* however many attempts find the container.
C15_OnePlaceholder ==
  /\ phCount <= 1
  /\ phMade <= 1
  /\ (placeholder = "absent") = (phCount = 0)

\* the placeholder was created, the page removed it, the container is
\* there, polling is over and later timer tasks have run
C15_Witness ==
  /\ phMade = 1 /\ phCount = 0 /\ els[Anchor].in /\ ~gaveUp
  /\ \A i \in DOMAIN timers : timers[i].role \notin {"poll", "giveup"}
  /\ reads # << >> /\ Head(reads).cb = "sweep"

ReconTimers == {i \in DOMAIN timers : timers[i].role = "recon"}

ReconReads ==
  Len(SelectSeq(reads, LAMBDA r : r.cb = "recon"))
    + Cardinality({i \in RetryTimers : timers[i].cb = "recon"})

\* C16: at most one reconciliation timer is pending at any time: it is
\* pending exactly while a throttle window is open, however many
\* notifications arrive in the window; and each timer that fires leads to
\* exactly one reconciliation pass (every fired timer whose pass has not run
\* has exactly one read or retry outstanding).
C16_OneReconTimer ==
  /\ Cardinality(ReconTimers) <= 1
  /\ (recon.burst > 0) = (ReconTimers # {})
  /\ (recon.burst > 0) = observer.timeout
  /\ recon.due = ReconReads

\* a window that took two notifications has closed and its one pass has run
C16_Witness ==
  /\ recon.served = MaxBurst /\ recon.due = 0 /\ last.resp = "pass"
  /\ ReconTimers = {}

\* the DOM state the feed policy writes
Dom(S) == [classes |-> S.classes, placeholder |-> S.placeholder, els |-> S.els]

BlockedRegion ==
  /\ Active \in classes /\ Disabled \notin classes
  /\ \A e \in Elems : els[e].in => (els[e].marked /\ els[e].display = "none")
  /\ placeholder \in {"absent", "flex"}

\* C17: applying the feed policy with enabled = true to an already blocked
\* region changes nothing in the DOM: neither applyChanges nor the feed pass
\* of a reconciliation alters it, applying applyChanges(true) twice gives
\* what applying it once gives, and a toggleFeedBlocker(true) message handled
\* in a blocked region leaves the DOM state as it was.
C17_BlockIdempotent ==
  /\ [](BlockedRegion =>
          /\ Dom(applyChanges(St, TRUE)) = Dom(St)
          /\ Dom(FeedPass(St, [feed |-> "true", news |-> "absent"])) = Dom(St))
  /\ [](Dom(applyChanges(applyChanges(St, TRUE), TRUE)) = Dom(applyChanges(St, TRUE)))
  /\ [][(BlockedRegion /\ last'.op = "toggleFeedBlocker" /\ last'.en)
          => Dom(St)' = Dom(St)]_vars

\* enabled = true was applied twice in a row to a region with every element
\* present and the placeholder shown
C17_Witness ==
  /\ toggles = << TRUE, TRUE >> /\ last.op = "toggleFeedBlocker" /\ last.resp = "success"
  /\ BlockedRegion /\ placeholder = "flex"
  /\ \A e \in Elems : els[e].in

\* C18: the registries hold no handle of a timer the runtime has retired (a
\* one-shot that fired, also when its callback raised; a recurring timer that
\* was cleared) and no observer that is not connected.
C18_NoStaleHandles ==
  /\ stale.timeouts = 0 /\ stale.intervals = 0
  /\ \A h \in timeouts \cup intervals : h[1] \in {"pending", "running"}
  /\ observer.reg => observer.connected

\* the init timer fired with the store throwing: its callback raised after
\* initialized was set; other timers are still registered
C18_Witness ==
  /\ initialized /\ listeners.msg = 0 /\ ~tornDown /\ host = "invalidated"
  /\ \A i \in DOMAIN timers : timers[i].role # "init"
  /\ timeouts # {} /\ intervals # {}

\* C19: when cleanupResources returns, the three registries are empty and
\* nothing was raised to the caller, whichever single clear or disconnect
\* raised inside; every tracked timer but the one whose clear raised is gone
\* and the tracked observer is disconnected unless its disconnect raised;
\* calling it again changes nothing.
C19_TeardownIdempotent ==
  /\ [](last.op = "teardown" =>
          /\ RegistriesEmpty
          /\ \A i \in DOMAIN timers : ~timers[i].reg
          /\ ~last.threw
          /\ cleanupResources(St) = St
          /\ \A b \in BOOLEAN : cleanupWith(St, DOMAIN timers, b) = St)
  /\ [][last'.op = "teardown" =>
          /\ Len(timers') <= Cardinality({i \in DOMAIN timers : ~timers[i].reg}) + 1
          /\ (observer.reg /\ ~last'.en) => ~observer'.connected]_vars

\* a teardown in which clearing one recurring timer raised: the registries
\* are empty all the same
C19_Witness ==
  /\ last.op = "teardown" /\ RegistriesEmpty /\ initialized
  /\ \E i \in DOMAIN timers : timers[i].role \in Intervals

\* C20: when isChromeAPIAvailable() is false, a call of safeGet hands the empty
\* result to its callback, once and without raising (no callback is left
\* undelivered), and a call of safeSet returns false and leaves the store as
\* it was.
C20_UnavailableGetSet ==
  /\ (last.op = "get" /\ ~isChromeAPIAvailable(St))
       => (last.resp = "empty" /\ ~last.threw)
  /\ owed = Len(reads) + Cardinality(RetryTimers)
  /\ (last.op = "set" /\ ~isChromeAPIAvailable(St))
       => (last.resp = "false" /\ store = last.res)

\* C21: the body never carries feed-blocker-active and feed-blocker-disabled
\* together, whatever toggles, delayed applications and reconciliation passes
\* have run; once the feed policy has been applied it carries exactly one.
C21_OneFeedClass ==
  /\ ~(Active \in classes /\ Disabled \in classes)
  /\ (toggles # << >> /\ body) => (Active \in classes) # (Disabled \in classes)

\* enabled = true then false were handled and a later reconciliation pass ran
C21_Witness ==
  /\ toggles = << TRUE, FALSE >> /\ last.resp = "pass"
  /\ Disabled \in classes /\ Active \notin classes

IntervalTimers == {i \in DOMAIN timers : timers[i].role \in Intervals}

\* a tick of a recurring timer taken while the host is unavailable
LostTick == ~isChromeAPIAvailable(St) /\ last'.op \in Intervals

\* C22: with the host unavailable for good, a recurring timer that ticks is
\* cancelled and its handle leaves the registry without its callback having
\* run; the observer that is notified disconnects and leaves the registry; the
\* click listener that is invoked removes itself; and none of them is there
\* again later: no new recurring timer, no re-attached observer, no click
\* listener.
C22_SelfCancelWhenLost ==
  /\ [][LostTick =>
          /\ \E i \in IntervalTimers :
               timers[i].role = last'.op /\ timers' = RemoveAt(timers, i)
          /\ Cardinality(intervals') = Cardinality(intervals) - 1
          /\ stale' = stale
          /\ reads' = reads /\ owed' = owed /\ tornDown' = tornDown
          /\ Dom(St)' = Dom(St) /\ observer' = observer]_vars
  /\ [][(~isChromeAPIAvailable(St) /\ observer.connected
            /\ \E e \in Elems : els'[e].in # els[e].in)
          => (~observer'.connected /\ ~observer'.reg /\ timers' = timers)]_vars
  /\ [][(~isChromeAPIAvailable(St) /\ clicks' # clicks)
          => (listeners'.click = 0 /\ timers' = timers)]_vars
  /\ [][~isChromeAPIAvailable(St) =>
          /\ Cardinality(IntervalTimers') <= Cardinality(IntervalTimers)
          /\ listeners'.click <= listeners.click
          /\ observer'.connected => observer.connected]_vars

Hidden(e) == els[e].marked /\ els[e].display = "none"

\* a read of the start-up callback or a delayed application is outstanding
InitOutstanding ==
  \/ \E i \in DOMAIN reads : reads[i].cb = "init"
  \/ \E i \in DOMAIN timers : timers[i].cb = "init" \/ timers[i].role = "apply"

\* C23: with feed blocking enabled in the store, the host available and the
\* observer attached, the insertion of a feed element leaves a reconciliation
\* timer pending (the one of the open throttle window or a new one); an
\* element that is not hidden has a pass outstanding (timer, read or retry);
\* and every such element is eventually marked and display:none, or removed
\* by the page.
C23_InsertedIsHidden ==
  /\ [][(observer.connected /\ body /\ \E e \in Elems : ~els[e].in /\ els'[e].in)
          => ReconTimers' # {}]_vars
  /\ [](\A e \in Elems :
          (els[e].in /\ ~Hidden(e) /\ observer.connected /\ store.feed # "false")
            => (ReconTimers # {} \/ recon.due > 0 \/ InitOutstanding))
  /\ \A e \in Elems :
       (els[e].in /\ observer.connected /\ store.feed # "false")
         ~> (Hidden(e) \/ ~els[e].in)

\* a pass has hidden both elements, added while the observer was attached
C23_Witness ==
  /\ last.resp = "pass" /\ recon.served >= 1 /\ store.feed = "true"
  /\ \A e \in Elems : els[e].in /\ Hidden(e) /\ ~els[e].vis

\* C24: after a reconciliation pass that read newsBlockerEnabled = false, no
\* news-panel element in the document carries the hidden marker and none is
\* left display:none.
C24_NewsPassUnblocks ==
  (last.resp = "pass" /\ last.res.news = "false")
    => \A e \in NewsEls : news[e].in => (~news[e].marked /\ news[e].display = "")

\* C25: a tick of a recurring timer whose callback raises ends with that
\* timer cleared and its handle out of intervals (no stale handle), with no
\* exception leaving the task, and with every other timer, the timeouts
\* registry, the observer and the document as they were; the cleared timer is
\* not there to tick again.
C25_RaisingTimerCancelled ==
  /\ [][last'.op = "raise" =>
          /\ \E i \in IntervalTimers :
               timers[i].role = "watchdog" /\ timers' = RemoveAt(timers, i)
          /\ Cardinality(intervals') = Cardinality(intervals) - 1
          /\ Cardinality(timeouts') = Cardinality(timeouts)
          /\ stale' = stale /\ observer' = observer /\ reads' = reads
          /\ Dom(St)' = Dom(St)
          /\ ~last'.threw]_vars
  /\ [](last.op = "raise" =>
          /\ \A i \in DOMAIN timers : timers[i].role # "watchdog"
          /\ \A h \in intervals : h[1] = "running")

\* the watchdog's callback raised after start-up: the sweep and the observer
\* are still registered
C25_Witness ==
  /\ last.op = "raise" /\ initialized /\ host = "up"
  /\ \E i \in DOMAIN timers : timers[i].role = "sweep" /\ timers[i].reg
  /\ observer.reg /\ observer.connected
  /\ timeouts # {}

\* C26: a stored value of feedBlockerEnabled changes only in the task that
\* handles a toggleFeedBlocker message: no start-up step, reconciliation
\* pass, sweep or read completion replaces a stored true or false by another
\* value.
C26_OnlyToggleWrites ==
  [][(store.feed # "absent" /\ store'.feed # store.feed)
       => last'.op = "toggleFeedBlocker"]_vars

\* C27: once a toggleFeedBlocker message has been handled, with the host
\* available ever since, the stored feedBlockerEnabled is the value of the
\* last message handled, in every later state.
C27_StoreKeepsLastToggle ==
  (toggles # << >> /\ host = "up")
    => store.feed = (IF toggles[Len(toggles)] THEN "true" ELSE "false")

\* C28: a task in which the callback of a reconciliation pass runs while
\* isChromeAPIAvailable() is false leaves the body classes, the placeholder
\* and every feed element as they were; a feed unblocked by the last toggle
\* stays unhidden.
C28_NoPassEffectWhenLost ==
  /\ [][(~isChromeAPIAvailable(St) /\ last'.resp = "pass") => Dom(St)' = Dom(St)]_vars
  /\ [](( /\ ~isChromeAPIAvailable(St) /\ last.resp = "pass"
           /\ toggles # << >> /\ ~toggles[Len(toggles)])
          => \A e \in Elems : ~els[e].marked)

\* C29: whatever the order of DOMContentLoaded, load and the 200 ms init
\* timeout, at most one watchdog interval is running and at most one error
\* listener is registered.
C29_OneWatchdogOneErrorListener ==
  /\ Cardinality({i \in DOMAIN timers : timers[i].role = "watchdog"}) <= 1
  /\ listeners.error <= 1

\* C30: with the host available, no one-shot timer and no store read pending,
\* a placeholder that is present has display flex exactly when the body
\* carries feed-blocker-active and display none exactly when it carries
\* feed-blocker-disabled.
C30_PlaceholderFollowsBodyClass ==
  (Quiescent /\ host = "up" /\ placeholder # "absent")
    => /\ (placeholder = "flex") = (Active \in classes)
       /\ (placeholder = "none") = (Disabled \in classes)

====
